---- MODULE Spec2Model ----
(***************************************************************************)
(* Model of the price / metadata retrieval-and-caching layer of the       *)
(* ticker board (src/app_Version2.py): the symbol resolver to_symbol, the  *)
(* metadata cache fetch_company_info with its lock, the batch price fetch  *)
(* get_latest_prices with its per-symbol fallback, and the /prices         *)
(* handler that merges them.                                               *)
(*                                                                         *)
(* Strings that the code inspects character by character (tickers and     *)
(* symbols) are sequences of one-character strings.                        *)
(***************************************************************************)
EXTENDS Integers, Sequences, FiniteSets, TLC

VARIABLES
    \* --- resolver runs (SpecResolve) ---
    ticker,          \* the raw ticker handed to to_symbol
    resolved,        \* to_symbol(ticker)
    resolvedTwice,   \* to_symbol(to_symbol(ticker))
    rpc              \* "init" | "once" | "twice"

VARIABLES
    \* --- the metadata cache under concurrent callers (SpecCache) ---
    company_info_cache,  \* symbol -> [info, fetched_at]; a dict, so a partial map
    company_info_lock,   \* 0 when free, else the thread that holds it
    clock,               \* time.time(), in whole seconds
    ticks,               \* how many times the clock has advanced
    calls,               \* how many calls of fetch_company_info have begun
    pc,                  \* per thread: "idle" | "wait" | "fetching"
    sym,                 \* per thread: the symbol of its current call
    now,                 \* per thread: the local `now` of its current call
    result,              \* per thread: what its last call returned
    trace,               \* per thread: what its current call saw and did
    fetchLog             \* upstream provider: per symbol, the clock times at
                         \* which a metadata lookup was issued

VARIABLES
    \* --- one request to /prices (SpecPrices) ---
    request,         \* [kind, items, count]: ?tickers=... split at ',' or ?count=
    world,           \* how the upstream provider behaves during the request
    default_tickers, \* DEFAULT_TICKERS, from tickers.txt or the sample list
    price_data,      \* what get_latest_prices returned
    price_calls,     \* the symbols whose history was looked up one by one
    response,        \* the mapping handed to jsonify
    info_calls,      \* the symbols whose metadata was looked up upstream
    raised,          \* an exception left the handler
    ppc              \* "received" | "responded"

pvars == <<request, world, default_tickers, price_data, price_calls, response,
           info_calls, raised, ppc>>
rvars == <<ticker, resolved, resolvedTwice, rpc>>
cvars == <<company_info_cache, company_info_lock, clock, ticks, calls, calls, pc, sym, now,
           result, trace, fetchLog>>
vars == <<rvars, cvars, pvars>>

\* the parts of the state a specification does not use stay as they are here
IdleResolve ==
    /\ ticker = <<>>
    /\ resolved = <<>>
    /\ resolvedTwice = <<>>
    /\ rpc = "off"

IdlePrices ==
    /\ request = [kind |-> "none", items |-> <<>>, count |-> 0]
    /\ world = <<>>
    /\ default_tickers = <<>>
    /\ price_data = <<>>
    /\ price_calls = {}
    /\ response = <<>>
    /\ info_calls = <<>>
    /\ raised = FALSE
    /\ ppc = "off"

-----------------------------------------------------------------------------
(* Bounds *)

\* longest raw ticker enumerated for the resolver
MaxLen == 4

\* how many times the clock advances in a run of the cache
MaxTicks == 2

\* how many calls of fetch_company_info begin in a run of the cache
MaxCalls == 3

\* longest explicit ticker list enumerated item by item
MaxReq == 2

\* how far past the cap the longest request goes
Overshoot == 50

-----------------------------------------------------------------------------
(* Strings *)

DotNS == <<".", "N", "S">>
DotBO == <<".", "B", "O">>
DashUSD == <<"-", "U", "S", "D">>

\* characters raw tickers are drawn from: whitespace, lower and upper case
\* letters, and the characters of the suffixes
Chars == {" ", "t", ".", "n", "N", "S", "B", "O", "-", "U", "D"}

\* str.strip() removes leading and trailing whitespace
IsSpace(c) == c = " "

RECURSIVE LStrip(_)
LStrip(s) == IF s # <<>> /\ IsSpace(Head(s)) THEN LStrip(Tail(s)) ELSE s

RECURSIVE RStrip(_)
RStrip(s) ==
    IF s # <<>> /\ IsSpace(s[Len(s)]) THEN RStrip(SubSeq(s, 1, Len(s) - 1)) ELSE s

strip(s) == RStrip(LStrip(s))

\* str.upper(), character by character
UpperChar(c) ==
    CASE c = "t" -> "T"
      [] c = "n" -> "N"
      [] c = "i" -> "I"
      [] OTHER -> c

upper(s) == [i \in 1..Len(s) |-> UpperChar(s[i])]

\* str.endswith(suffix)
endswith(s, suf) ==
    /\ Len(s) >= Len(suf)
    /\ SubSeq(s, Len(s) - Len(suf) + 1, Len(s)) = suf

\* all sequences over S of length at most n
RECURSIVE SeqsUpTo(_, _)
SeqsUpTo(S, n) ==
    IF n = 0 THEN {<<>>}
    ELSE LET shorter == SeqsUpTo(S, n - 1)
         IN  shorter \cup {Append(s, c) : s \in shorter, c \in S}

-----------------------------------------------------------------------------
(* to_symbol *)

\* the resolver without its suffix test: every ticker gets ".NS" appended
to_symbol_always_append(t) == upper(strip(t)) \o DotNS

\* the resolver that also leaves crypto-style "-USD" symbols alone
to_symbol_crypto(t) ==
    LET u == upper(strip(t))
    IN  IF endswith(u, DotNS) \/ endswith(u, DotBO) \/ endswith(u, DashUSD)
        THEN u
        ELSE u \o DotNS

to_symbol(t) ==
    LET u == upper(strip(t))
    IN  IF endswith(u, DotNS) \/ endswith(u, DotBO)
        THEN u
        ELSE u \o DotNS

-----------------------------------------------------------------------------
(* fetch_company_info: the metadata cache *)

COMPANY_INFO_TTL == 60 * 60

\* concurrent request threads calling fetch_company_info
Threads == {1, 2}

\* resolved symbols the concurrent callers ask about
CacheSymbols == {<<"T", ".", "N", "S">>, <<"I", ".", "N", "S">>}

\* What the upstream provider answers to a metadata lookup: it raises, or it
\* returns an info mapping whose fields may be missing or empty (<<>>).
UpstreamInfos ==
    { [raises |-> TRUE, longName |-> <<>>, shortName |-> <<>>,
       longBusinessSummary |-> <<>>, sector |-> <<>>],
      [raises |-> FALSE, longName |-> <<>>, shortName |-> <<"S">>,
       longBusinessSummary |-> <<"D">>, sector |-> <<"X">>] }

\* Python's `a or b` on strings and None: the first truthy operand
Or(a, b) == IF a # <<>> THEN a ELSE b

\* the record of the except branch
FallbackInfo(symbol) == [name |-> symbol, description |-> <<>>]

\* the try / except of fetch_company_info
BuildInfo(symbol, up) ==
    IF up.raises
    THEN FallbackInfo(symbol)
    ELSE [name |-> Or(up.longName, Or(up.shortName, symbol)),
          description |-> Or(up.longBusinessSummary, up.sector)]

\* the freshness test with the boundary on the wrong side
CacheFresh_inclusive(cache, symbol, t) ==
    /\ symbol \in DOMAIN cache
    /\ t - cache[symbol].fetched_at <= COMPANY_INFO_TTL

\* `entry and now - entry.get('fetched_at', 0) < COMPANY_INFO_TTL`
CacheFresh(cache, symbol, t) ==
    /\ symbol \in DOMAIN cache
    /\ t - cache[symbol].fetched_at < COMPANY_INFO_TTL

\* company_info_cache[symbol] = {'info': info, 'fetched_at': now}
Put(cache, symbol, entry) == (symbol :> entry) @@ cache

\* the cache write that skips the record of a failed lookup
StoreInfo_success_only(cache, symbol, up, t) ==
    IF up.raises THEN cache
    ELSE Put(cache, symbol, [info |-> BuildInfo(symbol, up), fetched_at |-> t])

\* the cache after the lookup answered `up` to a call that read the clock at t
StoreInfo(cache, symbol, up, t) ==
    Put(cache, symbol, [info |-> BuildInfo(symbol, up), fetched_at |-> t])

\* dict.get(symbol) as an optional: <<>> or <<entry>>
Get(cache, symbol) == IF symbol \in DOMAIN cache THEN <<cache[symbol]>> ELSE <<>>

NoTrace == [seen |-> <<>>, hit |-> FALSE, calls |-> 0, raised |-> FALSE,
            stored |-> <<>>]

InitCache ==
    /\ company_info_cache = <<>>
    /\ company_info_lock = 0
    /\ clock = 0
    /\ ticks = 0
    /\ calls = 0
    /\ pc = [p \in Threads |-> "idle"]
    /\ sym = [p \in Threads |-> <<>>]
    /\ now = [p \in Threads |-> 0]
    /\ result = [p \in Threads |-> <<>>]
    /\ trace = [p \in Threads |-> NoTrace]
    /\ fetchLog = [s \in CacheSymbols |-> <<>>]

\* line 38: a request thread enters fetch_company_info and reads the clock
Call(p, s) ==
    /\ pc[p] = "idle"
    /\ calls < MaxCalls
    /\ calls' = calls + 1
    /\ pc' = [pc EXCEPT ![p] = "wait"]
    /\ sym' = [sym EXCEPT ![p] = s]
    /\ now' = [now EXCEPT ![p] = clock]
    /\ result' = [result EXCEPT ![p] = <<>>]
    /\ trace' = [trace EXCEPT ![p] = NoTrace]
    /\ UNCHANGED <<company_info_cache, company_info_lock, clock, ticks, fetchLog>>
    /\ UNCHANGED <<rvars, pvars>>

\* lines 39-42: the lock is taken, the entry is fresh, the cached record is
\* returned and the lock released
CacheHit(p) ==
    /\ pc[p] = "wait"
    /\ company_info_lock = 0
    /\ CacheFresh(company_info_cache, sym[p], now[p])
    /\ result' = [result EXCEPT ![p] = <<company_info_cache[sym[p]].info>>]
    /\ trace' = [trace EXCEPT ![p] =
                    [@ EXCEPT !.seen = Get(company_info_cache, sym[p]),
                              !.hit = TRUE]]
    /\ pc' = [pc EXCEPT ![p] = "idle"]
    /\ UNCHANGED <<company_info_cache, company_info_lock, clock, ticks, calls, sym,
                   now, fetchLog>>
    /\ UNCHANGED <<rvars, pvars>>

\* lines 39-44: the lock is taken, there is no fresh entry, and the upstream
\* lookup is issued with the lock held
StartFetch(p) ==
    /\ pc[p] = "wait"
    /\ company_info_lock = 0
    /\ ~CacheFresh(company_info_cache, sym[p], now[p])
    /\ company_info_lock' = p
    /\ pc' = [pc EXCEPT ![p] = "fetching"]
    /\ fetchLog' = [fetchLog EXCEPT ![sym[p]] = Append(@, clock)]
    /\ trace' = [trace EXCEPT ![p] =
                    [@ EXCEPT !.seen = Get(company_info_cache, sym[p]),
                              !.calls = @ + 1]]
    /\ UNCHANGED <<company_info_cache, clock, ticks, calls, sym, now, result>>
    /\ UNCHANGED <<rvars, pvars>>

\* lines 44-54: the lookup answers or raises, the record is stored under the
\* `now` read at line 38, the lock is released and the record returned
FinishFetch(p, up) ==
    /\ pc[p] = "fetching"
    /\ company_info_lock = p
    /\ company_info_cache' = StoreInfo(company_info_cache, sym[p], up, now[p])
    /\ result' = [result EXCEPT ![p] = <<BuildInfo(sym[p], up)>>]
    /\ trace' = [trace EXCEPT ![p] =
                    [@ EXCEPT !.raised = up.raises,
                              !.stored = Get(company_info_cache', sym[p])]]
    /\ company_info_lock' = 0
    /\ pc' = [pc EXCEPT ![p] = "idle"]
    /\ UNCHANGED <<clock, ticks, calls, sym, now, fetchLog>>
    /\ UNCHANGED <<rvars, pvars>>

\* time passes: by a second, or by a second less than the TTL
Tick(d) ==
    /\ ticks < MaxTicks
    /\ clock' = clock + d
    /\ ticks' = ticks + 1
    /\ UNCHANGED <<company_info_cache, company_info_lock, calls, pc, sym, now,
                   result, trace, fetchLog>>
    /\ UNCHANGED <<rvars, pvars>>

NextCache ==
    \/ \E p \in Threads, s \in CacheSymbols : Call(p, s)
    \/ \E p \in Threads : CacheHit(p)
    \/ \E p \in Threads : StartFetch(p)
    \/ \E p \in Threads, up \in UpstreamInfos : FinishFetch(p, up)
    \/ \E d \in {1, COMPANY_INFO_TTL - 1} : Tick(d)

InitCacheRun == InitCache /\ IdleResolve /\ IdlePrices

SpecCache == InitCacheRun /\ [][NextCache]_vars

-----------------------------------------------------------------------------
(* Claims about the metadata cache *)

\* C4: a call that finds an entry stamped T and that read the clock strictly
\* before T + TTL returns the cached record unchanged and issues no upstream
\* lookup; a call that read the clock at or after T + TTL issues one lookup
\* and replaces the entry, stamping it with its own clock reading.
C4_ServedUntilTTLThenRefreshed ==
    \A p \in Threads :
        trace[p].seen # <<>> =>
            LET e == trace[p].seen[1]
            IN  IF now[p] < e.fetched_at + COMPANY_INFO_TTL
                THEN /\ trace[p].hit
                     /\ trace[p].calls = 0
                     /\ trace[p].stored = <<>>
                     /\ pc[p] = "idle"
                     /\ result[p] = <<e.info>>
                ELSE /\ ~trace[p].hit
                     /\ trace[p].calls = 1
                     /\ pc[p] = "idle" =>
                            /\ trace[p].stored # <<>>
                            /\ trace[p].stored[1].fetched_at = now[p]
                            /\ result[p] = <<trace[p].stored[1].info>>

\* one call was served from an entry one second before it expired, and
\* another call, exactly TTL after the stamp, refreshed the entry
C4_Witness ==
    \E p, q \in Threads :
        /\ trace[p].seen # <<>>
        /\ trace[p].hit
        /\ now[p] = trace[p].seen[1].fetched_at + COMPANY_INFO_TTL - 1
        /\ trace[q].seen # <<>>
        /\ now[q] = trace[q].seen[1].fetched_at + COMPANY_INFO_TTL
        /\ pc[q] = "idle"
        /\ trace[q].calls = 1

\* C5: when the upstream lookup fails the call returns the fallback record
\* (name = the symbol, empty description) and stores it in the cache under
\* its clock reading, as it would a successful result; a later call for the
\* symbol that finds this record within the TTL is answered from the cache
\* with no upstream lookup.
C5_FallbackCachedLikeSuccess ==
    /\ \A p \in Threads :
          (pc[p] = "idle" /\ trace[p].raised) =>
              /\ result[p] = <<FallbackInfo(sym[p])>>
              /\ trace[p].stored =
                    <<[info |-> FallbackInfo(sym[p]), fetched_at |-> now[p]]>>
    /\ \A q \in Threads :
          ( /\ trace[q].seen # <<>>
            /\ trace[q].seen[1].info = FallbackInfo(sym[q])
            /\ now[q] - trace[q].seen[1].fetched_at < COMPANY_INFO_TTL ) =>
              /\ trace[q].hit
              /\ trace[q].calls = 0
              /\ result[q] = <<FallbackInfo(sym[q])>>

\* a lookup failed, its fallback record was stored, and a later call for the
\* same symbol was answered with that stored record
C5_Witness ==
    \E p, q \in Threads :
        /\ p # q
        /\ pc[p] = "idle"
        /\ trace[p].raised
        /\ sym[q] = sym[p]
        /\ trace[q].hit
        /\ trace[q].seen = trace[p].stored
        /\ now[q] > now[p]

\* C6: the lock is not held across the upstream lookup: while one thread is
\* in the lookup for symbol A, a thread asking for another symbol B whose
\* entry is fresh can read the cache and return without waiting.
C6_OtherSymbolNotBlocked ==
    \A p, q \in Threads :
        ( /\ pc[p] = "fetching"
          /\ pc[q] = "wait"
          /\ sym[q] # sym[p]
          /\ CacheFresh(company_info_cache, sym[q], now[q]) ) =>
            ENABLED CacheHit(q)

\* C10: two upstream lookups for the same symbol are never issued less than
\* TTL apart in clock time.
C10_LookupsTTLApart ==
    \A s \in CacheSymbols :
        \A i, j \in 1..Len(fetchLog[s]) :
            i < j => fetchLog[s][j] >= fetchLog[s][i] + COMPANY_INFO_TTL

-----------------------------------------------------------------------------
(* The upstream provider as the price path sees it *)

MAX == 200
DefaultCount == 50
DescriptionLimit == 600

SymT == <<"T", ".", "N", "S">>
SymI == <<"I", ".", "N", "S">>
SmallSymbols == {SymT, SymI}

\* closing prices, oldest first, in ten-thousandths of a rupee (so that
\* round(float(latest), 4) keeps them as they are); <<>> is a column that is
\* empty after dropna()
Series == {<<>>, <<100>>, <<100, 110>>, <<0, 50>>}

HistKinds == {"raise", "empty", "data"}

\* what Ticker(s).history(period='2d') holds when it has rows
HistSeries(s) == IF s = SymT THEN <<200, 210>> ELSE <<300>>

\* One behaviour of the provider during a request.
\*   batchKind  "raise":  yf.download raises (or returns something the code
\*                        cannot read, which raises inside the try block)
\*              "empty":  the frame is empty
\*              "multi":  MultiIndex columns; ('Close', s) exists for s in have
\*                        (and, when haveRest, for every symbol outside
\*                        SmallSymbols), each such column holding `series`
\*              "single": flat columns of a lookup of one symbol; flat is
\*                        <<>> when there is no 'Close' column, else <<series>>
\*   histKind / histRest : the individual history lookup per symbol
\*   infoRaises / infoRestRaises : whether Ticker(s).info raises
World(kind, have, haveRest, series, flat, hk, hr, ir, irr) ==
    [batchKind |-> kind, have |-> have, haveRest |-> haveRest,
     series |-> series, flat |-> flat, histKind |-> hk, histRest |-> hr,
     infoRaises |-> ir, infoRestRaises |-> irr]

BatchShapes(haves, rests, sers) ==
    {<<"raise", {}, FALSE, <<>>, <<>>>>, <<"empty", {}, FALSE, <<>>, <<>>>>}
    \cup {<<"multi", h, r, sr, <<>>>> : h \in haves, r \in rests, sr \in sers}
    \cup {<<"single", {}, FALSE, <<>>, f>> : f \in {<<>>} \cup {<<sr>> : sr \in Series}}

\* provider behaviours that differ on the symbols of SmallSymbols
SmallWorlds ==
    {World(b[1], b[2], b[3], b[4], b[5], hk, "empty", ir, FALSE) :
        b \in BatchShapes(SUBSET SmallSymbols, {FALSE}, Series),
        hk \in [SmallSymbols -> HistKinds],
        ir \in {[s \in SmallSymbols |-> FALSE], [s \in SmallSymbols |-> s = SymT],
                [s \in SmallSymbols |-> TRUE]}}

\* provider behaviours that differ on all the other symbols
RestWorlds ==
    {World(b[1], b[2], b[3], b[4], b[5], [s \in SmallSymbols |-> "empty"], hr,
           [s \in SmallSymbols |-> FALSE], irr) :
        b \in BatchShapes({{}}, BOOLEAN, {<<>>, <<100, 110>>}),
        hr \in HistKinds,
        irr \in BOOLEAN}

HasCloseColumn(w, s) == IF s \in SmallSymbols THEN s \in w.have ELSE w.haveRest
HistKindOf(w, s) == IF s \in SmallSymbols THEN w.histKind[s] ELSE w.histRest
InfoRaises(w, s) == IF s \in SmallSymbols THEN w.infoRaises[s] ELSE w.infoRestRaises

\* Ticker(s).info as fetch_company_info reads it
InfoOf(w, s) ==
    [raises |-> InfoRaises(w, s), longName |-> <<>>, shortName |-> <<"S">>,
     longBusinessSummary |-> <<"D">>, sector |-> <<"X">>]

-----------------------------------------------------------------------------
(* get_latest_prices *)

Null == <<>>
Some(v) == <<v>>

NullQuote == [price |-> Null, change_pct |-> Null]

\* round(n / d, 0) for d > 0, ties to even, as Python's round
RoundDiv(n, d) ==
    LET q == n \div d
        r == n % d
    IN  IF 2 * r < d THEN q
        ELSE IF 2 * r > d THEN q + 1
        ELSE IF q % 2 = 0 THEN q ELSE q + 1

\* round(((latest - prev) / prev) * 100, 2) if prev != 0 else 0.0,
\* in hundredths of a percent
ChangePct(latest, prev) ==
    IF prev # 0 THEN RoundDiv((latest - prev) * 10000, prev) ELSE 0

\* latest / prev / change_pct / the stored quote, from a non-empty series
QuoteOf(series) ==
    LET latest == series[Len(series)]
        prev == IF Len(series) > 1 THEN series[Len(series) - 1] ELSE latest
    IN  [price |-> Some(latest), change_pct |-> Some(ChangePct(latest, prev))]

Range(f) == {f[i] : i \in DOMAIN f}

\* Loops over a list run as the loop over its first half followed by the
\* loop over its second half, down to single iterations. Done(keys) is true
\* of every key set; testing it makes the first half's result a value before
\* the second half starts, which keeps the evaluation shallow.
Mid(lo, hi) == (lo + hi) \div 2
Done(keys) == keys \subseteq keys

\* lines 63-68, iterations lo..hi: sym_map[s] = t.upper() (a later ticker of
\* the same symbol overwrites an earlier one) and symbols.append(s)
RECURSIVE ResolveAll(_, _, _, _)
ResolveAll(acc, tickers, lo, hi) ==
    IF lo > hi THEN acc
    ELSE IF lo = hi
    THEN LET s == to_symbol(tickers[lo])
         IN  [sym_map |-> Put(acc.sym_map, s, upper(tickers[lo])),
              symbols |-> Append(acc.symbols, s)]
    ELSE LET first == ResolveAll(acc, tickers, lo, Mid(lo, hi))
         IN  IF Done(DOMAIN first.sym_map)
             THEN ResolveAll(first, tickers, Mid(lo, hi) + 1, hi)
             ELSE first

\* lines 92-103: the loop over the MultiIndex frame, iterations lo..hi
RECURSIVE FillMulti(_, _, _, _, _, _)
FillMulti(results, w, symbols, sym_map, lo, hi) ==
    IF lo > hi THEN results
    ELSE IF lo = hi
    THEN LET s == symbols[lo]
             q == IF HasCloseColumn(w, s) /\ Len(w.series) # 0
                  THEN QuoteOf(w.series)
                  ELSE NullQuote
         IN  Put(results, sym_map[s], q)
    ELSE LET first == FillMulti(results, w, symbols, sym_map, lo, Mid(lo, hi))
         IN  IF Done(DOMAIN first)
             THEN FillMulti(first, w, symbols, sym_map, Mid(lo, hi) + 1, hi)
             ELSE first

\* lines 77-87: the loop of the empty-frame branch, iterations lo..hi; a
\* history without rows assigns nothing
RECURSIVE FillFromHistoryIfAny(_, _, _, _, _, _)
FillFromHistoryIfAny(results, w, symbols, sym_map, lo, hi) ==
    IF lo > hi THEN results
    ELSE IF lo = hi
    THEN LET s == symbols[lo]
             k == HistKindOf(w, s)
         IN  IF k = "data" THEN Put(results, sym_map[s], QuoteOf(HistSeries(s)))
             ELSE IF k = "raise" THEN Put(results, sym_map[s], NullQuote)
             ELSE results
    ELSE LET first == FillFromHistoryIfAny(results, w, symbols, sym_map, lo, Mid(lo, hi))
         IN  IF Done(DOMAIN first)
             THEN FillFromHistoryIfAny(first, w, symbols, sym_map, Mid(lo, hi) + 1, hi)
             ELSE first

\* lines 118-130: the loop of the except branch, iterations lo..hi
RECURSIVE FillFromHistory(_, _, _, _, _, _)
FillFromHistory(results, w, symbols, sym_map, lo, hi) ==
    IF lo > hi THEN results
    ELSE IF lo = hi
    THEN LET s == symbols[lo]
             q == IF HistKindOf(w, s) = "data" THEN QuoteOf(HistSeries(s))
                  ELSE NullQuote
         IN  Put(results, sym_map[s], q)
    ELSE LET first == FillFromHistory(results, w, symbols, sym_map, lo, Mid(lo, hi))
         IN  IF Done(DOMAIN first)
             THEN FillFromHistory(first, w, symbols, sym_map, Mid(lo, hi) + 1, hi)
             ELSE first

\* lines 71-114, the try block: exc when an exception leaves it, else the
\* results it returns and the symbols whose history it asked for
TryBatch(w, symbols, sym_map) ==
    CASE w.batchKind = "raise" ->
            [exc |-> TRUE, results |-> <<>>, histCalls |-> {}]
      [] w.batchKind = "empty" ->
            [exc |-> FALSE,
             results |-> FillFromHistoryIfAny(<<>>, w, symbols, sym_map, 1, Len(symbols)),
             histCalls |-> Range(symbols)]
      [] w.batchKind = "multi" ->
            [exc |-> FALSE,
             results |-> FillMulti(<<>>, w, symbols, sym_map, 1, Len(symbols)),
             histCalls |-> {}]
      [] w.batchKind = "single" ->
            IF w.flat = <<>>
            THEN [exc |-> TRUE, results |-> <<>>, histCalls |-> {}]
            ELSE [exc |-> FALSE,
                  results |-> Put(<<>>, sym_map[symbols[1]],
                                  IF Len(w.flat[1]) = 0 THEN NullQuote
                                  ELSE QuoteOf(w.flat[1])),
                  histCalls |-> {}]

\* get_latest_prices without the outer except clause
get_latest_prices_no_except(w, tickers) ==
    IF Len(tickers) = 0
    THEN [exc |-> FALSE, results |-> <<>>, histCalls |-> {}]
    ELSE LET r == ResolveAll([sym_map |-> <<>>, symbols |-> <<>>], tickers, 1,
                             Len(tickers))
         IN  TryBatch(w, r.symbols, r.sym_map)

\* get_latest_prices, lines 56-131
get_latest_prices(w, tickers) ==
    IF Len(tickers) = 0
    THEN [exc |-> FALSE, results |-> <<>>, histCalls |-> {}]
    ELSE LET r == ResolveAll([sym_map |-> <<>>, symbols |-> <<>>], tickers, 1,
                             Len(tickers))
             tried == TryBatch(w, r.symbols, r.sym_map)
         IN  IF tried.exc
             THEN [exc |-> FALSE,
                   results |-> FillFromHistory(<<>>, w, r.symbols, r.sym_map, 1,
                                               Len(r.symbols)),
                   histCalls |-> Range(r.symbols)]
             ELSE tried

-----------------------------------------------------------------------------
(* The /prices handler *)

DEFAULT_TICKERS_SAMPLE ==
    <<<<"R", "E", "L", "I", "A", "N", "C", "E">>,
       <<"T", "C", "S">>,
       <<"H", "D", "F", "C", "B", "A", "N", "K">>,
       <<"I", "N", "F", "Y">>,
       <<"H", "I", "N", "D", "U", "N", "I", "L", "V", "R">>,
       <<"I", "C", "I", "C", "I", "B", "A", "N", "K">>,
       <<"K", "O", "T", "A", "K", "B", "A", "N", "K">>,
       <<"H", "D", "F", "C">>,
       <<"S", "B", "I", "N">>,
       <<"B", "H", "A", "R", "T", "I", "A", "R", "T", "L">>>>

DigitChars == <<"0", "1", "2", "3", "4", "5", "6", "7", "8", "9">>

RECURSIVE Digits(_)
Digits(n) ==
    IF n < 10 THEN <<DigitChars[n + 1]>>
    ELSE Append(Digits(n \div 10), DigitChars[(n % 10) + 1])

\* the i-th of a long list of distinct tickers: K1, K2, ...
GenTicker(i) == <<"K">> \o Digits(i)
GenTickers(n) == [i \in 1..n |-> GenTicker(i)]

Min(a, b) == IF a < b THEN a ELSE b
Maxi(a, b) == IF a > b THEN a ELSE b

\* Python's seq[:c]
SliceTo(q, c) ==
    SubSeq(q, 1, IF c >= 0 THEN Min(c, Len(q)) ELSE Maxi(Len(q) + c, 0))

\* line 145: [t.strip().upper() for t in tickers_param.split(',') if t.strip()]
ParseTickers(items) ==
    LET kept == SelectSeq(items, LAMBDA t : strip(t) # <<>>)
    IN  [i \in 1..Len(kept) |-> upper(strip(kept[i]))]

\* `if tickers_param:`: the parameter is there and is not the empty string,
\* which is the one string that split(',') turns into a single empty item
ParamGiven(req) ==
    /\ req.kind = "tickers"
    /\ ~(Len(req.items) = 1 /\ req.items[1] = <<>>)

\* lines 143-148
RequestedTickers(req, defaults) ==
    IF ParamGiven(req) THEN ParseTickers(req.items)
    ELSE SliceTo(defaults, req.count)

\* the handler without the cap
Truncate_none(tickers) == tickers

\* lines 151-153
Truncate(tickers) == IF Len(tickers) > MAX THEN SubSeq(tickers, 1, MAX) ELSE tickers

\* fetch_company_info run to completion by one caller at time t
FetchCompanyInfo(cache, w, symbol, t) ==
    IF CacheFresh(cache, symbol, t)
    THEN [info |-> cache[symbol].info, cache |-> cache, called |-> FALSE]
    ELSE [info |-> BuildInfo(symbol, InfoOf(w, symbol)),
          cache |-> StoreInfo(cache, symbol, InfoOf(w, symbol), t),
          called |-> TRUE]

\* info.get('description', '')[:600]
Shorten(d) == SubSeq(d, 1, Min(Len(d), DescriptionLimit))

\* lines 158-169: the merge loop, iterations lo..hi; acc is
\* [cache, response, infoLog]
RECURSIVE Merge(_, _, _, _, _, _, _)
Merge(acc, w, tickers, quotes, t, lo, hi) ==
    IF lo > hi THEN acc
    ELSE IF lo = hi
    THEN LET tk == tickers[lo]
             s == to_symbol(tk)
             f == FetchCompanyInfo(acc.cache, w, s, t)
             pdict == IF tk \in DOMAIN quotes THEN quotes[tk] ELSE NullQuote
             entry == [symbol |-> s,
                       name |-> f.info.name,
                       description |-> Shorten(f.info.description),
                       price |-> pdict.price,
                       change_pct |-> pdict.change_pct]
         IN  [cache |-> f.cache,
              response |-> Put(acc.response, tk, entry),
              infoLog |-> IF f.called THEN Append(acc.infoLog, s)
                          ELSE acc.infoLog]
    ELSE LET first == Merge(acc, w, tickers, quotes, t, lo, Mid(lo, hi))
         IN  IF Done(DOMAIN first.response)
             THEN Merge(first, w, tickers, quotes, t, Mid(lo, hi) + 1, hi)
             ELSE first

-----------------------------------------------------------------------------
(* SpecPrices: one request to /prices against one behaviour of the provider *)

\* raw items of an explicit ticker list, as split(',') returns them: lower
\* case, already suffixed, padded, empty
RawItems == {<<"t">>, SymT, <<" ", "i">>, <<>>}

\* split(',') returns at least one item; without ?count= the count is 50
ShortRequests ==
    {[kind |-> "tickers", items |-> it, count |-> DefaultCount] :
        it \in SeqsUpTo(RawItems, MaxReq) \ {<<>>}}

LongLengths == {MAX, MAX + 1, MAX + Overshoot}

LongRequests ==
    {[kind |-> "tickers", items |-> GenTickers(n), count |-> DefaultCount] :
        n \in LongLengths}

CountRequests ==
    {[kind |-> "count", items |-> <<>>, count |-> c] :
        c \in {-1, 0, 1, DefaultCount, MAX + Overshoot}}

SymbolsOf(req, defaults) ==
    {to_symbol(t) : t \in Range(Truncate(RequestedTickers(req, defaults)))}

InitPrices ==
    /\ \/ /\ request \in ShortRequests
          /\ world \in SmallWorlds
          /\ default_tickers = DEFAULT_TICKERS_SAMPLE
       \/ /\ request \in LongRequests
          /\ world \in RestWorlds
          /\ default_tickers = DEFAULT_TICKERS_SAMPLE
       \/ /\ request \in CountRequests
          /\ world \in RestWorlds
          /\ default_tickers \in {DEFAULT_TICKERS_SAMPLE, GenTickers(MAX + Overshoot)}
    \* a flat frame is what the provider returns for one symbol
    /\ world.batchKind = "single" =>
          Cardinality(SymbolsOf(request, default_tickers)) = 1
    /\ price_data = <<>>
    /\ price_calls = {}
    /\ response = <<>>
    /\ info_calls = <<>>
    /\ raised = FALSE
    /\ ppc = "received"
    /\ InitCache
    /\ IdleResolve

\* the whole handler, lines 141-170
Prices ==
    /\ ppc = "received"
    /\ LET tickers == Truncate(RequestedTickers(request, default_tickers))
           got == get_latest_prices(world, tickers)
           merged == Merge([cache |-> company_info_cache, response |-> <<>>,
                            infoLog |-> <<>>],
                           world, tickers, got.results, clock, 1, Len(tickers))
       IN  IF got.exc
           THEN /\ raised' = TRUE
                /\ UNCHANGED <<price_data, price_calls, response, info_calls,
                               company_info_cache>>
           ELSE /\ raised' = FALSE
                /\ price_data' = got.results
                /\ price_calls' = got.histCalls
                /\ response' = merged.response
                /\ info_calls' = merged.infoLog
                /\ company_info_cache' = merged.cache
    /\ ppc' = "responded"
    /\ UNCHANGED <<request, world, default_tickers>>
    /\ UNCHANGED <<company_info_lock, clock, ticks, calls, pc, sym, now, result,
                   trace, fetchLog>>
    /\ UNCHANGED rvars

NextPrices == Prices

SpecPrices == InitPrices /\ [][NextPrices]_vars

-----------------------------------------------------------------------------
(* Claims about /prices and get_latest_prices *)

\* the tickers of the request, in order, cut to the cap
Requested == RequestedTickers(request, default_tickers)
Capped == {Requested[i] : i \in 1..Min(Len(Requested), MAX)}

ResponseFields == {"symbol", "name", "description", "price", "change_pct"}

\* C1: the keys of the returned mapping are exactly the requested tickers,
\* and exactly the first 200 of them when more than 200 are requested.
C1_KeysAreRequestedTickers == ppc = "responded" => DOMAIN response = Capped

\* a request for more than 200 distinct tickers was answered with 200 entries
C1_Witness ==
    /\ ppc = "responded"
    /\ Len(Requested) > MAX
    /\ Cardinality(DOMAIN response) = MAX
    /\ Requested[MAX] \in DOMAIN response

\* C2: whatever the provider does (the batch download raises, is empty,
\* covers some symbols or has another shape; a history lookup raises or is
\* empty; a metadata lookup raises), no exception leaves the handler and the
\* entry of every requested ticker carries the five fields.
C2_NeverRaisesAndWellShaped ==
    ppc = "responded" =>
        /\ ~raised
        /\ \A t \in Capped :
              /\ t \in DOMAIN response
              /\ DOMAIN response[t] = ResponseFields

\* the batch download, the history lookup and the metadata lookup of a
\* requested ticker all raised, and its entry is there with null quote
\* fields and the fallback name
C2_Witness ==
    /\ ppc = "responded"
    /\ world.batchKind = "raise"
    /\ world.histKind[SymT] = "raise"
    /\ world.infoRaises[SymT]
    /\ <<"T">> \in DOMAIN response
    /\ response[<<"T">>].price = Null
    /\ response[<<"T">>].change_pct = Null
    /\ response[<<"T">>].name = SymT

\* the batch result holds no data for s: the call raised (or could not be
\* read), the frame was empty, or the frame has no Close column for s
NoBatchData(w, s) ==
    \/ w.batchKind \in {"raise", "empty"}
    \/ w.batchKind = "multi" /\ ~HasCloseColumn(w, s)
    \/ w.batchKind = "single" /\ w.flat = <<>>

\* the batch result holds closing prices for s
BatchCloses(w, s) ==
    IF w.batchKind = "multi" /\ HasCloseColumn(w, s) THEN w.series
    ELSE IF w.batchKind = "single" /\ w.flat # <<>> THEN w.flat[1]
    ELSE <<>>

\* C3: for every requested symbol the batch result holds no data for, the
\* symbol's history is looked up individually, and the result carries that
\* lookup's quote when it has rows and an explicit null quote (present, not
\* absent) when it has none or raises.
C3_FallbackForEveryMissingSymbol ==
    ppc = "responded" =>
        \A t \in Capped :
            LET s == to_symbol(t)
            IN  NoBatchData(world, s) =>
                    /\ s \in price_calls
                    /\ \E k \in DOMAIN price_data :
                          /\ to_symbol(k) = s
                          /\ price_data[k] =
                                IF HistKindOf(world, s) = "data"
                                THEN QuoteOf(HistSeries(s))
                                ELSE NullQuote

\* C7: every ticker whose resolved symbol has closing data in the batch
\* result gets that symbol's latest price and change, under its own ticker
\* string, also when several requested tickers resolve to the same symbol.
C7_BatchDataReachesEveryTicker ==
    ppc = "responded" =>
        \A t \in Capped :
            LET closes == BatchCloses(world, to_symbol(t))
            IN  closes # <<>> =>
                    /\ response[t].price = QuoteOf(closes).price
                    /\ response[t].change_pct = QuoteOf(closes).change_pct

-----------------------------------------------------------------------------
(* SpecResolve: the resolver applied once and then again to its own result *)

RawTickers == SeqsUpTo(Chars, MaxLen)

InitResolve ==
    /\ ticker \in RawTickers
    /\ resolved = <<>>
    /\ resolvedTwice = <<>>
    /\ rpc = "init"
    /\ InitCache
    /\ IdlePrices

Resolve ==
    /\ rpc = "init"
    /\ resolved' = to_symbol(ticker)
    /\ rpc' = "once"
    /\ UNCHANGED <<ticker, resolvedTwice, cvars, pvars>>

ResolveAgain ==
    /\ rpc = "once"
    /\ resolvedTwice' = to_symbol(resolved)
    /\ rpc' = "twice"
    /\ UNCHANGED <<ticker, resolved, cvars, pvars>>

NextResolve == Resolve \/ ResolveAgain

SpecResolve == InitResolve /\ [][NextResolve]_vars

-----------------------------------------------------------------------------
(* Claims about the resolver *)

Normalized(t) == upper(strip(t))

\* C8: the resolver is idempotent: resolving a resolved symbol returns it
\* unchanged, to_symbol(to_symbol(t)) = to_symbol(t).
C8_Idempotent == rpc = "twice" => resolvedTwice = resolved

\* a ticker that needed trimming, uppercasing and a suffix, resolved twice
C8_Witness ==
    /\ rpc = "twice"
    /\ strip(ticker) # ticker
    /\ upper(ticker) # ticker
    /\ resolved = Normalized(ticker) \o DotNS

\* C9 as stated: a ticker that already ends with .NS, .BO or -USD is returned
\* trimmed and uppercased but otherwise unchanged, and .NS is appended only
\* to tickers that carry none of the three suffixes.
C9_RecognizedSuffixesUnchanged ==
    rpc # "init" =>
        LET u == Normalized(ticker)
        IN  IF endswith(u, DotNS) \/ endswith(u, DotBO) \/ endswith(u, DashUSD)
            THEN resolved = u
            ELSE resolved = u \o DotNS

\* C9 amended: only .NS and .BO are recognized; every other ticker, those
\* ending with -USD included, gets .NS appended.
C9_OnlyExchangeSuffixesUnchanged ==
    rpc # "init" =>
        LET u == Normalized(ticker)
        IN  IF endswith(u, DotNS) \/ endswith(u, DotBO)
            THEN resolved = u
            ELSE resolved = u \o DotNS

\* a crypto-style symbol went through the resolver and got .NS appended
C9_Witness ==
    /\ rpc # "init"
    /\ endswith(Normalized(ticker), DashUSD)
    /\ resolved = Normalized(ticker) \o DotNS

====
